---- MODULE Spec2Model ----
(***************************************************************************)
(* Model of keyword_matcher_2: the campaign cache (cache.go, the HTTP      *)
(* handlers) and the per-campaign keyword matcher (stage_processing.go).   *)
(*                                                                         *)
(* Spec       the campaign cache: request goroutines running handleMatch / *)
(*            getMatcher, the admin handlers, the WatchFiles goroutine and *)
(*            the file system. Every critical section that only touches    *)
(*            the maps is one step, taken while nobody holds the exclusive *)
(*            lock; the load section of getMatcher, which reads the file   *)
(*            under the lock, is several steps.                            *)
(***************************************************************************)
EXTENDS Integers, Sequences, FiniteSets, TLC

(***************************************************************************)
(* Bound of the cache model: requests and file system operations started.  *)
(***************************************************************************)
MaxOps == 3

Campaigns == {"c1", "c2"}
Workers == {"w1", "w2"}

None == "none"
NoMatcher == [loadedAt |-> 0, src |-> 0]
NoTime == 0

(* filepath.Join(keywordsDir, campaign + ".json"): the key isFileModified   *)
(* uses in fileModTimes. It is never equal to a campaign name.              *)
FilePath(c) == <<"keywords", c, ".json">>

(* A campaign name used as a key of fileModTimes (the reload handlers and   *)
(* the watcher delete by campaign name).                                    *)
NameKey(c) == <<c>>

ModKeys == {NameKey(c) : c \in Campaigns} \cup {FilePath(c) : c \in Campaigns}

FileContents == {"valid", "invalid", "unreadable"}

(* The campaigns whose file is created, written or removed during a run.    *)
Edited == {"c1"}

VARIABLES
    matchers,       \* CampaignCache.matchers: campaign -> Matcher or NoMatcher
    fileModTimes,   \* CampaignCache.fileModTimes: key -> time or NoTime
    writer,         \* RWMutex: holder of the exclusive lock, or None
    files,          \* the keywords directory: campaign -> file state
    now,            \* the clock behind time.Now() and file modification times
    events,         \* watcher.Events channel
    errors,         \* watcher.Errors channel: number of queued errors
    closed,         \* watcher.Close() was called
    wpc,            \* position of each request goroutine
    wcamp,          \* campaign of the request a goroutine serves
    wloc,           \* locals of getMatcher / isFileModified
    resp,           \* last handleMatch response of each goroutine
    tpc,            \* position of the WatchFiles goroutine
    tev,            \* event the WatchFiles goroutine is handling
    info,           \* last handleCacheInfo answer: number of cached campaigns
    nops,           \* requests and file system operations started so far
    evictedAt,      \* history: clock value of the last eviction of a campaign
    watchedAt,      \* history: stamp of the last event the watcher evicted for
    loggedAt,       \* history: clock value when the watcher last logged an error
    wobs,           \* history: what held when the goroutine's request started
    invalidated,    \* history: campaigns whose file changed or whose eviction was requested
    config,         \* the decoded configuration file: rawKeywords of getMatcher
    linked,         \* the source file whose ProcessStage the build links
    km,             \* the KeywordMatcher built from rawKeywords, or NoKM
    req,            \* the MatchRequest handleMatch is serving, or NoReq
    out             \* what ProcessStage returned for req, and the calls it made

cacheVars == <<matchers, fileModTimes, writer, files, now, events, errors, closed,
               wpc, wcamp, wloc, resp, tpc, tev, info, nops, evictedAt, watchedAt,
               loggedAt, wobs, invalidated>>

matcherVars == <<config, linked, km, req, out>>

vars == <<cacheVars, matcherVars>>

NoLoc == [modTime |-> NoTime, data |-> None, src |-> NoTime, err |-> None]

NoResp == [status |-> None, matcher |-> NoMatcher]

NoObs == [camp |-> None, evictedAt |-> NoTime, cached |-> FALSE, gone |-> FALSE,
          recorded |-> NoTime]

(* An fsnotify.Event: Op bits and Name (base name and extension); at is the  *)
(* history stamp of the moment the event was raised.                        *)
NoEvent == [op |-> {}, base |-> None, ext |-> None, at |-> NoTime]

(***************************************************************************)
(* Go's builtin delete(map, key) and map assignment.                       *)
(***************************************************************************)
DeleteMatcherKept(m, c) == m

DeleteMatcher(m, c) == IF c \in DOMAIN m THEN [m EXCEPT ![c] = NoMatcher] ELSE m

DeleteModTime(t, k) == IF k \in DOMAIN t THEN [t EXCEPT ![k] = NoTime] ELSE t

(***************************************************************************)
(* sync.RWMutex. A shared section (RLock ... RUnlock) and a short exclusive *)
(* section (Lock ... Unlock) is a single step, so between steps the lock is *)
(* either free or held exclusively by a goroutine inside the load section.  *)
(***************************************************************************)
CanLock == writer = None

CanRLock == writer = None

(***************************************************************************)
(* NewCampaignCache: empty maps, nothing locked. The keywords directory     *)
(* holds the file of c1; the file of c2 may be there or not.               *)
(***************************************************************************)
Present == [exists |-> TRUE, mtime |-> 1, content |-> "valid"]

Missing == [exists |-> FALSE, mtime |-> NoTime, content |-> "valid"]

CacheInit ==
    /\ matchers = [c \in Campaigns |-> NoMatcher]
    /\ fileModTimes = [k \in ModKeys |-> NoTime]
    /\ writer = None
    /\ files \in {[c \in Campaigns |-> IF c = "c1" THEN Present ELSE f] : f \in {Present, Missing}}
    /\ now = 1
    /\ events = <<>>
    /\ errors = 0
    /\ closed = FALSE
    /\ wpc = [w \in Workers |-> "idle"]
    /\ wcamp = [w \in Workers |-> None]
    /\ wloc = [w \in Workers |-> NoLoc]
    /\ resp = [w \in Workers |-> NoResp]
    /\ tpc = "select"
    /\ tev = NoEvent
    /\ info = 0
    /\ nops = 0
    /\ evictedAt = [c \in Campaigns |-> NoTime]
    /\ watchedAt = [c \in Campaigns |-> NoTime]
    /\ loggedAt = NoTime
    /\ wobs = [w \in Workers |-> NoObs]
    /\ invalidated = {}

(***************************************************************************)
(* Helpers shared by the steps below.                                      *)
(***************************************************************************)
(* The file cannot be served: os.Stat or os.ReadFile fails on it.           *)
Unavailable(f) == ~f.exists \/ f.content = "unreadable"

InLoad(w) == wpc[w] \in {"load_read", "load_build"}

Respond(w, status, m) == resp' = [resp EXCEPT ![w] = [status |-> status, matcher |-> m]]

Finish(w) ==
    /\ wpc' = [wpc EXCEPT ![w] = "idle"]
    /\ wcamp' = [wcamp EXCEPT ![w] = None]
    /\ wloc' = [wloc EXCEPT ![w] = NoLoc]

Goto(w, pc) == wpc' = [wpc EXCEPT ![w] = pc]

(* Request goroutines are anonymous: a new request is served by the first   *)
(* goroutine that is free.                                                  *)
Free(w) == wpc[w] = "idle" /\ (w = "w1" \/ wpc["w1"] # "idle")

UNCHANGED_env == UNCHANGED <<files, events, errors, closed, tpc, tev, info, watchedAt,
                             loggedAt>>

UNCHANGED_workers == UNCHANGED <<wpc, wcamp, wloc, resp, wobs>>

(***************************************************************************)
(* handleMatch, part_000 lines 79-102: bind and validate the request, then *)
(* enter getMatcher, whose first statement is isFileModified's os.Stat.    *)
(***************************************************************************)
BadRequest(w) ==
    /\ Free(w) /\ nops < MaxOps
    /\ nops' = nops + 1
    /\ Respond(w, "400", NoMatcher)
    /\ wobs' = [wobs EXCEPT ![w] = NoObs]
    /\ UNCHANGED <<matchers, fileModTimes, writer, now, wpc, wcamp, wloc, evictedAt>>
    /\ UNCHANGED_env
    /\ UNCHANGED invalidated
    /\ UNCHANGED matcherVars

(* cache.go lines 98-103 *)
Stat(w, c) ==
    /\ Free(w) /\ nops < MaxOps
    /\ nops' = nops + 1
    /\ wcamp' = [wcamp EXCEPT ![w] = c]
    /\ resp' = [resp EXCEPT ![w] = NoResp]
    /\ wobs' = [wobs EXCEPT ![w] = [camp |-> c, evictedAt |-> evictedAt[c],
                                    cached |-> matchers[c] # NoMatcher,
                                    gone |-> Unavailable(files[c]),
                                    recorded |-> fileModTimes[FilePath(c)]]]
    /\ IF files[c].exists
          THEN /\ wloc' = [wloc EXCEPT ![w] = [NoLoc EXCEPT !.modTime = files[c].mtime]]
               /\ Goto(w, "ifm_read")
          ELSE /\ wloc' = [wloc EXCEPT ![w] = NoLoc]
               /\ Goto(w, "check")
    /\ UNCHANGED <<matchers, fileModTimes, writer, now, evictedAt>>
    /\ UNCHANGED_env
    /\ UNCHANGED invalidated
    /\ UNCHANGED matcherVars

(***************************************************************************)
(* isFileModified, cache.go lines 105-116.                                 *)
(***************************************************************************)
(* line 109: !exists || modTime.After(lastModTime) *)
ModTimeAfter(modTime, lastModTime) == lastModTime = NoTime \/ modTime > lastModTime

(* lines 105-109: the recorded time is read under the shared lock *)
IfmRead(w) ==
    /\ wpc[w] = "ifm_read" /\ CanRLock
    /\ IF ModTimeAfter(wloc[w].modTime, fileModTimes[FilePath(wcamp[w])])
          THEN Goto(w, "ifm_write")
          ELSE Goto(w, "check")
    /\ UNCHANGED <<matchers, fileModTimes, writer, now, wcamp, wloc, resp, nops, evictedAt, wobs>>
    /\ UNCHANGED_env
    /\ UNCHANGED invalidated
    /\ UNCHANGED matcherVars

(* lines 110-113: the new time is recorded under the exclusive lock *)
IfmWrite(w) ==
    /\ wpc[w] = "ifm_write" /\ CanLock
    /\ fileModTimes' = [fileModTimes EXCEPT ![FilePath(wcamp[w])] = wloc[w].modTime]
    /\ Goto(w, "evict")
    /\ UNCHANGED <<matchers, writer, now, wcamp, wloc, resp, nops, evictedAt, wobs>>
    /\ UNCHANGED_env
    /\ UNCHANGED invalidated
    /\ UNCHANGED matcherVars

(***************************************************************************)
(* getMatcher, cache.go lines 124-138: evict on a detected modification,   *)
(* then look the campaign up under the shared lock.                        *)
(***************************************************************************)
Evict(w) ==
    /\ wpc[w] = "evict" /\ CanLock
    /\ matchers' = DeleteMatcher(matchers, wcamp[w])
    /\ evictedAt' = [evictedAt EXCEPT ![wcamp[w]] = now]
    /\ Goto(w, "check")
    /\ UNCHANGED <<fileModTimes, writer, now, wcamp, wloc, resp, nops, wobs>>
    /\ UNCHANGED_env
    /\ UNCHANGED invalidated
    /\ UNCHANGED matcherVars

(* lines 132-138; on a hit handleMatch answers with ProcessStage's label *)
Check(w) ==
    /\ wpc[w] = "check" /\ CanRLock
    /\ IF matchers[wcamp[w]] # NoMatcher
          THEN /\ Respond(w, "200", matchers[wcamp[w]])
               /\ Finish(w)
          ELSE /\ Goto(w, "load_lock")
               /\ UNCHANGED <<wcamp, wloc, resp>>
    /\ UNCHANGED <<matchers, fileModTimes, writer, now, nops, evictedAt, wobs>>
    /\ UNCHANGED_env
    /\ UNCHANGED invalidated
    /\ UNCHANGED matcherVars

(***************************************************************************)
(* getMatcher, cache.go lines 140-166: the load section, entirely under    *)
(* the exclusive lock, which the deferred Unlock releases on every return. *)
(***************************************************************************)
(* The load section entered without taking the exclusive lock. *)
LoadLockUnlocked(w) ==
    /\ wpc[w] = "load_lock"
    /\ IF matchers[wcamp[w]] # NoMatcher
          THEN /\ Respond(w, "200", matchers[wcamp[w]])
               /\ Finish(w)
          ELSE /\ Goto(w, "load_read")
               /\ UNCHANGED <<wcamp, wloc, resp>>
    /\ UNCHANGED <<matchers, fileModTimes, writer, now, nops, evictedAt, wobs>>
    /\ UNCHANGED_env
    /\ UNCHANGED invalidated
    /\ UNCHANGED matcherVars

(* lines 141-147: Lock and the double check *)
LoadLock(w) ==
    /\ wpc[w] = "load_lock" /\ CanLock
    /\ IF matchers[wcamp[w]] # NoMatcher
          THEN /\ Respond(w, "200", matchers[wcamp[w]])
               /\ Finish(w)
               /\ UNCHANGED writer
          ELSE /\ writer' = w
               /\ Goto(w, "load_read")
               /\ UNCHANGED <<wcamp, wloc, resp>>
    /\ UNCHANGED <<matchers, fileModTimes, now, nops, evictedAt, wobs>>
    /\ UNCHANGED_env
    /\ UNCHANGED invalidated
    /\ UNCHANGED matcherVars

(* The read error dropped: the load goes on with empty data. *)
LoadReadUnchecked(w) ==
    /\ wpc[w] = "load_read"
    /\ wloc' = [wloc EXCEPT ![w].data = "valid", ![w].src = now]
    /\ Goto(w, "load_build")
    /\ UNCHANGED <<writer, wcamp, resp>>
    /\ UNCHANGED <<matchers, fileModTimes, now, nops, evictedAt, wobs>>
    /\ UNCHANGED_env
    /\ UNCHANGED invalidated
    /\ UNCHANGED matcherVars

(* os.ReadFile, lines 150-153 *)
LoadRead(w) ==
    /\ wpc[w] = "load_read"
    /\ IF Unavailable(files[wcamp[w]])
          THEN /\ writer' = None
               /\ Respond(w, "404", NoMatcher)
               /\ Finish(w)
          ELSE /\ wloc' = [wloc EXCEPT ![w].data = files[wcamp[w]].content,
                                       ![w].src = files[wcamp[w]].mtime]
               /\ Goto(w, "load_build")
               /\ UNCHANGED <<writer, wcamp, resp>>
    /\ UNCHANGED <<matchers, fileModTimes, now, nops, evictedAt, wobs>>
    /\ UNCHANGED_env
    /\ UNCHANGED invalidated
    /\ UNCHANGED matcherVars

PublishAlways(m, c, ok, built) == [m EXCEPT ![c] = built]

(* lines 160-161: the map is assigned only a fully built Matcher *)
Publish(m, c, ok, built) == IF ok THEN [m EXCEPT ![c] = built] ELSE m

(* json.Unmarshal, NewKeywordMatcher (loadedAt: time.Now()), the assignment *)
(* into the map, the deferred Unlock and handleMatch's response.            *)
LoadBuild(w) ==
    /\ wpc[w] = "load_build"
    /\ LET ok == wloc[w].data = "valid"
           built == [loadedAt |-> now + 1, src |-> wloc[w].src]
       IN /\ now' = IF ok THEN now + 1 ELSE now
          /\ matchers' = Publish(matchers, wcamp[w], ok, built)
          /\ IF ok THEN Respond(w, "200", built) ELSE Respond(w, "404", NoMatcher)
    /\ writer' = None
    /\ Finish(w)
    /\ UNCHANGED <<fileModTimes, nops, evictedAt, wobs>>
    /\ UNCHANGED_env
    /\ UNCHANGED invalidated
    /\ UNCHANGED matcherVars

(***************************************************************************)
(* handleReloadCampaign, part_000 lines 51-64.                             *)
(***************************************************************************)
handleReloadCampaign(c) ==
    /\ nops < MaxOps /\ CanLock
    /\ nops' = nops + 1
    /\ matchers' = DeleteMatcher(matchers, c)
    /\ fileModTimes' = DeleteModTime(fileModTimes, NameKey(c))
    /\ evictedAt' = [evictedAt EXCEPT ![c] = now]
    /\ UNCHANGED <<writer, now>>
    /\ UNCHANGED_env /\ UNCHANGED_workers
    /\ invalidated' = invalidated \cup {c}
    /\ UNCHANGED matcherVars

(***************************************************************************)
(* handleReloadAll, part_000 lines 66-77: both maps are replaced.          *)
(***************************************************************************)
handleReloadAll ==
    /\ nops < MaxOps /\ CanLock
    /\ nops' = nops + 1
    /\ matchers' = [c \in Campaigns |-> NoMatcher]
    /\ fileModTimes' = [k \in ModKeys |-> NoTime]
    /\ evictedAt' = [c \in Campaigns |-> now]
    /\ UNCHANGED <<writer, now>>
    /\ UNCHANGED_env /\ UNCHANGED_workers
    /\ invalidated' = Campaigns
    /\ UNCHANGED matcherVars

(***************************************************************************)
(* handleCacheInfo, part_000 lines 20-49: enumerates the map under the     *)
(* shared lock.                                                            *)
(***************************************************************************)
handleCacheInfo ==
    /\ nops < MaxOps /\ CanRLock
    /\ nops' = nops + 1
    /\ info' = Cardinality({c \in Campaigns : matchers[c] # NoMatcher})
    /\ UNCHANGED <<matchers, fileModTimes, writer, now, evictedAt>>
    /\ UNCHANGED <<files, events, errors, closed, tpc, tev, watchedAt, loggedAt>>
    /\ UNCHANGED_workers
    /\ UNCHANGED invalidated
    /\ UNCHANGED matcherVars

(***************************************************************************)
(* WatchFiles, cache.go lines 57-95.                                       *)
(***************************************************************************)
IsReloadEventAnyFile(ev) == ev.op \cap {"Write", "Create"} # {}

(* lines 68-69: event.Op&(Write|Create) != 0 and the ".json" suffix         *)
IsReloadEvent(ev) == ev.op \cap {"Write", "Create"} # {} /\ ev.ext = "json"

(* line 71: strings.TrimSuffix(filepath.Base(event.Name), ".json")          *)
EventCampaign(ev) == ev.base

UNCHANGED_cache == UNCHANGED <<matchers, fileModTimes, writer, evictedAt, watchedAt, info>>

WatcherLogs(t) == loggedAt' = t

(* case event, ok := <-cc.watcher.Events with ok true *)
WatchEvent ==
    /\ tpc = "select" /\ events # <<>>
    /\ events' = Tail(events)
    /\ IF IsReloadEvent(Head(events))
          THEN tpc' = "settle" /\ tev' = Head(events)
          ELSE UNCHANGED <<tpc, tev>>
    /\ UNCHANGED <<files, now, errors, closed, nops, loggedAt>>
    /\ UNCHANGED_cache /\ UNCHANGED_workers
    /\ UNCHANGED invalidated
    /\ UNCHANGED matcherVars

(* lines 74-82: after the settle delay, Lock, delete both entries, Unlock *)
WatchEvict ==
    /\ tpc = "settle" /\ CanLock
    /\ matchers' = DeleteMatcher(matchers, EventCampaign(tev))
    /\ fileModTimes' = DeleteModTime(fileModTimes, NameKey(EventCampaign(tev)))
    /\ evictedAt' = [c \in Campaigns |-> IF c = EventCampaign(tev) THEN now ELSE evictedAt[c]]
    /\ watchedAt' = [c \in Campaigns |-> IF c = EventCampaign(tev) THEN tev.at ELSE watchedAt[c]]
    /\ tpc' = "select"
    /\ tev' = NoEvent
    /\ UNCHANGED <<writer, files, now, events, errors, closed, info, nops, loggedAt>>
    /\ UNCHANGED_workers
    /\ invalidated' = invalidated \cup ({EventCampaign(tev)} \cap Campaigns)
    /\ UNCHANGED matcherVars

(* The error case returning instead of looping. *)
WatchErrorReturns ==
    /\ tpc = "select" /\ errors > 0
    /\ errors' = errors - 1
    /\ WatcherLogs(now)
    /\ tpc' = "stopped"
    /\ UNCHANGED <<files, now, events, closed, tev, nops>>
    /\ UNCHANGED_cache /\ UNCHANGED_workers
    /\ UNCHANGED invalidated
    /\ UNCHANGED matcherVars

(* lines 88-92: case err, ok := <-cc.watcher.Errors with ok true: logged *)
WatchError ==
    /\ tpc = "select" /\ errors > 0
    /\ errors' = errors - 1
    /\ WatcherLogs(now)
    /\ UNCHANGED <<files, now, events, closed, tpc, tev, nops>>
    /\ UNCHANGED_cache /\ UNCHANGED_workers
    /\ UNCHANGED invalidated
    /\ UNCHANGED matcherVars

(* lines 63-65 and 89-91: a receive from a closed, drained channel *)
WatchClosed ==
    /\ tpc = "select" /\ closed
    /\ events = <<>> \/ errors = 0
    /\ tpc' = "stopped"
    /\ UNCHANGED <<files, now, events, errors, closed, tev, nops, loggedAt>>
    /\ UNCHANGED_cache /\ UNCHANGED_workers
    /\ UNCHANGED invalidated
    /\ UNCHANGED matcherVars

(***************************************************************************)
(* The environment: the keywords directory and the fsnotify watcher.       *)
(***************************************************************************)
Emit(ev) == events' = IF closed THEN events ELSE Append(events, ev)

(* A lookup whose campaign file becomes available is no longer a lookup of  *)
(* a file that was missing or unreadable throughout.                        *)
Observe(c, f) ==
    wobs' = [w \in Workers |->
                IF wcamp[w] = c /\ wpc[w] # "idle" /\ ~Unavailable(f) THEN [wobs[w] EXCEPT !.gone = FALSE]
                                                  ELSE wobs[w]]

UNCHANGED_go == UNCHANGED <<tpc, tev, wpc, wcamp, wloc, resp, loggedAt>>

FsWrite(c, content) ==
    /\ nops < MaxOps /\ files[c].exists
    /\ nops' = nops + 1
    /\ now' = now + 1
    /\ files' = [files EXCEPT ![c] = [exists |-> TRUE, mtime |-> now + 1, content |-> content]]
    /\ Emit([op |-> {"Write"}, base |-> c, ext |-> "json", at |-> now + 1])
    /\ Observe(c, files'[c])
    /\ UNCHANGED <<errors, closed>>
    /\ UNCHANGED_cache /\ UNCHANGED_go
    /\ invalidated' = invalidated \cup {c}
    /\ UNCHANGED matcherVars

FsCreate(c, content) ==
    /\ nops < MaxOps /\ ~files[c].exists
    /\ nops' = nops + 1
    /\ now' = now + 1
    /\ files' = [files EXCEPT ![c] = [exists |-> TRUE, mtime |-> now + 1, content |-> content]]
    /\ Emit([op |-> {"Create"}, base |-> c, ext |-> "json", at |-> now + 1])
    /\ Observe(c, files'[c])
    /\ UNCHANGED <<errors, closed>>
    /\ UNCHANGED_cache /\ UNCHANGED_go
    /\ invalidated' = invalidated \cup {c}
    /\ UNCHANGED matcherVars

FsRemove(c) ==
    /\ nops < MaxOps /\ files[c].exists
    /\ nops' = nops + 1
    /\ files' = [files EXCEPT ![c] = Missing]
    /\ Emit([op |-> {"Remove"}, base |-> c, ext |-> "json", at |-> now])
    /\ UNCHANGED <<now, errors, closed, wobs>>
    /\ UNCHANGED_cache /\ UNCHANGED_go
    /\ invalidated' = invalidated \cup {c}
    /\ UNCHANGED matcherVars

(* Events the watcher has to ignore: other operations, other files.         *)
OtherEvents ==
    {[op |-> {"Chmod"}, base |-> "c1", ext |-> "json", at |-> NoTime],
     [op |-> {"Write"}, base |-> "c1", ext |-> "txt", at |-> NoTime]}

FsOther(ev) ==
    /\ nops < MaxOps /\ ~closed
    /\ nops' = nops + 1
    /\ events' = Append(events, ev)
    /\ UNCHANGED <<files, now, errors, closed, wobs>>
    /\ UNCHANGED_cache /\ UNCHANGED_go
    /\ UNCHANGED invalidated
    /\ UNCHANGED matcherVars

(* an error on the watcher's error channel *)
WatcherFault ==
    /\ nops < MaxOps /\ ~closed
    /\ nops' = nops + 1
    /\ errors' = errors + 1
    /\ UNCHANGED <<files, now, events, closed, wobs>>
    /\ UNCHANGED_cache /\ UNCHANGED_go
    /\ UNCHANGED invalidated
    /\ UNCHANGED matcherVars

(* CampaignCache.Close, cache.go lines 51-55: closes both channels *)
Close ==
    /\ nops < MaxOps /\ ~closed
    /\ nops' = nops + 1
    /\ closed' = TRUE
    /\ UNCHANGED <<files, now, events, errors, wobs>>
    /\ UNCHANGED_cache /\ UNCHANGED_go
    /\ UNCHANGED invalidated
    /\ UNCHANGED matcherVars

CacheNext ==
    \/ \E w \in Workers : BadRequest(w)
    \/ \E w \in Workers, c \in Campaigns : Stat(w, c)
    \/ \E w \in Workers : IfmRead(w)
    \/ \E w \in Workers : IfmWrite(w)
    \/ \E w \in Workers : Evict(w)
    \/ \E w \in Workers : Check(w)
    \/ \E w \in Workers : LoadLock(w)
    \/ \E w \in Workers : LoadRead(w)
    \/ \E w \in Workers : LoadBuild(w)
    \/ \E c \in Campaigns : handleReloadCampaign(c)
    \/ handleReloadAll
    \/ handleCacheInfo
    \/ WatchEvent
    \/ WatchEvict
    \/ WatchError
    \/ WatchClosed
    \/ \E c \in Edited, content \in FileContents : FsWrite(c, content)
    \/ \E c \in Edited, content \in FileContents : FsCreate(c, content)
    \/ \E c \in Edited : FsRemove(c)
    \/ \E ev \in OtherEvents : FsOther(ev)
    \/ WatcherFault
    \/ Close

(* the nil *KeywordMatcher, no request, nothing returned *)
NoKM == [nil |-> TRUE]

NoReq == [text |-> "", stage |-> ""]

NoOut == [result |-> "", calls |-> <<>>, done |-> FALSE]

(* the cache on its own: no configuration is decoded and nothing classified *)
MatcherIdle ==
    /\ config = <<>>
    /\ linked = None
    /\ km = NoKM
    /\ req = NoReq
    /\ out = NoOut

Init == CacheInit /\ MatcherIdle

Next == CacheNext

Spec == Init /\ [][Next]_vars

(***************************************************************************)
(* Properties of the campaign cache.                                       *)
(***************************************************************************)
Returns(w) == wpc[w] # "idle" /\ wpc'[w] = "idle"

WatcherSteps == tpc' # tpc \/ Len(events') < Len(events) \/ errors' < errors

(* C5: a lookup that starts after an eviction of its campaign, and succeeds, *)
(* returns a Matcher built after that eviction (a later load timestamp), and *)
(* the map holds only fully built Matchers, none from before the campaign's  *)
(* last eviction.                                                            *)
FreshLoadAfterEviction ==
    /\ \A w \in Workers :
          resp[w].status = "200" => resp[w].matcher.loadedAt > wobs[w].evictedAt
    /\ \A c \in Campaigns :
          matchers[c] # NoMatcher =>
              /\ matchers[c].loadedAt > evictedAt[c]
              /\ matchers[c].src # NoTime

(* A second load of the unchanged initial file after an eviction. *)
FreshLoadAfterEvictionWitness ==
    \E w \in Workers :
        /\ resp[w].status = "200"
        /\ wobs[w].evictedAt > 1
        /\ resp[w].matcher.src = 1
        /\ resp[w].matcher.loadedAt > wobs[w].evictedAt

(* C6: at most one goroutine is inside the load section, it holds the         *)
(* exclusive lock, and while it does no other goroutine and not the watcher   *)
(* passes a section that reads or writes the maps.                            *)
OneLoadInFlight ==
    /\ [](/\ Cardinality({w \in Workers : InLoad(w)}) <= 1
          /\ \A w \in Workers : InLoad(w) <=> writer = w)
    /\ [][\A w \in Workers :
            InLoad(w) =>
               /\ fileModTimes' = fileModTimes
               /\ matchers' # matchers => wpc[w] = "load_build" /\ wpc'[w] = "idle"
               /\ \A v \in Workers \ {w} : wpc[v] # "idle" => wpc'[v] = wpc[v]
               /\ tpc = "settle" => tpc' = "settle"]_vars

(* One goroutine is loading while another waits for the lock to load. *)
OneLoadInFlightWitness ==
    \E w, v \in Workers : InLoad(w) /\ wpc[v] = "load_lock" /\ tpc = "settle"

(* C7: when the file read or the JSON parse of a load fails, the lookup       *)
(* answers with the error and no Matcher, the map then has no entry for the   *)
(* campaign, and the entries of the other campaigns are as before.            *)
FailedLoadCachesNothing ==
    [][\A w \in Workers :
          /\ \/ wpc[w] = "load_read" /\ Unavailable(files[wcamp[w]])
             \/ wpc[w] = "load_build" /\ wloc[w].data # "valid"
          /\ wpc'[w] # wpc[w]
          => /\ resp'[w] = [status |-> "404", matcher |-> NoMatcher]
             /\ matchers'[wcamp[w]] = NoMatcher
             /\ \A d \in Campaigns \ {wcamp[w]} : matchers'[d] = matchers[d]]_vars

(* A lookup that started with a cached Matcher, found the file rewritten     *)
(* with invalid JSON and failed.                                             *)
FailedLoadCachesNothingWitness ==
    \E w \in Workers :
        /\ resp[w].status = "404"
        /\ wobs[w].cached
        /\ files[wobs[w].camp].content = "invalid"
        /\ matchers[wobs[w].camp] = NoMatcher

(* C8 as stated: a lookup of a campaign whose file is missing or unreadable   *)
(* during the whole lookup never answers with a label.                        *)
MissingFileIsNotFound ==
    \A w \in Workers : wobs[w].gone => resp[w].status # "200"

(* C8 amended: such a lookup answers campaign-not-found unless it finds a     *)
(* Matcher for the campaign in the map, and then it answers from that one.    *)
MissingFileIsNotFoundUnlessCached ==
    [][\A w \in Workers :
          Returns(w) /\ wobs[w].gone =>
              IF matchers[wcamp[w]] = NoMatcher
                 THEN resp'[w] = [status |-> "404", matcher |-> NoMatcher]
                 ELSE resp'[w] = [status |-> "200", matcher |-> matchers[wcamp[w]]]]_vars

(* A first lookup of a campaign without a file: not found. *)
MissingFileIsNotFoundWitness ==
    \E w \in Workers :
        resp[w].status = "404" /\ wobs[w].gone /\ ~wobs[w].cached /\ ~files[wobs[w].camp].exists

(***************************************************************************)
(* The cache under the scheduling Go gives: the watcher goroutine runs     *)
(* when it can, a goroutine inside the load section leaves it, and a       *)
(* goroutine waiting for the mutex gets it once it stays free.             *)
(***************************************************************************)
MaxLiveOps == 2

LiveNext == Next /\ nops' <= MaxLiveOps

FairSpec ==
    /\ Init /\ [][LiveNext]_vars
    /\ WF_vars(WatchEvent)
    /\ WF_vars(WatchEvict)
    /\ \A w \in Workers : WF_vars(LoadRead(w)) /\ WF_vars(LoadBuild(w))

(* C9: the watcher turns every create or write event on <campaign>.json into  *)
(* a delete of that campaign's entry, taken when the lock is free, and does   *)
(* so eventually; it leaves the other entries alone, ignores the other events *)
(* and never inserts; once it has handled an event the map holds no Matcher   *)
(* loaded before the event.                                                   *)
WatcherEvictsOnly ==
    /\ [](\A c \in Campaigns :
            matchers[c] # NoMatcher =>
                matchers[c].loadedAt > watchedAt[c] /\ matchers[c].src >= watchedAt[c])
    /\ [][WatcherSteps =>
            /\ IF tpc = "settle"
                  THEN /\ writer = None
                       /\ \A c \in Campaigns :
                             matchers'[c] = IF c = tev.base THEN NoMatcher ELSE matchers[c]
                  ELSE matchers' = matchers
            /\ Len(events') < Len(events) =>
                  IF Head(events).op \cap {"Write", "Create"} # {} /\ Head(events).ext = "json"
                     THEN tpc' = "settle" /\ tev' = Head(events)
                     ELSE tpc' = "select"]_vars
    /\ \A c \in Campaigns, t \in 1..(MaxLiveOps + 2) :
          (tpc = "settle" /\ tev.base = c /\ tev.at = t)
              ~> (tpc = "select" /\ watchedAt[c] >= t)

(* The watcher has evicted a Matcher that was loaded before a write. *)
WatcherEvictsOnlyWitness ==
    /\ watchedAt["c1"] > 1
    /\ evictedAt["c1"] = now
    /\ matchers["c1"] = NoMatcher
    /\ \E w \in Workers : resp[w].status = "200" /\ resp[w].matcher.loadedAt < watchedAt["c1"]

(* C10: an error from the watcher's error channel changes neither map, the    *)
(* watcher goes on selecting with the queued events untouched, and it stops   *)
(* only after the channels were closed.                                       *)
WatcherErrorsHarmless ==
    /\ [](tpc = "stopped" => closed)
    /\ [][errors' < errors =>
            /\ matchers' = matchers
            /\ fileModTimes' = fileModTimes
            /\ events' = events
            /\ tpc' = "select"]_vars

(* After logging an error the watcher received an event raised later. *)
WatcherErrorsHarmlessWitness ==
    loggedAt # NoTime /\ tpc = "settle" /\ tev.at > loggedAt

(***************************************************************************)
(* The keyword matcher. Go strings are TLA+ strings; a character is a      *)
(* string of length one. Three characters stand for what a TLA+ string     *)
(* cannot hold or what has to be told apart: "~" is U+00A0 NO-BREAK SPACE. *)
(***************************************************************************)
CharAt(s, i) == SubSeq(s, i, i)

NBSP == "~"

UpperLetters == "ABCDEFGHIJKLMNOPQRSTUVWXYZ"

LowerLetters == "abcdefghijklmnopqrstuvwxyz"

Digits == "0123456789"

Among(c, alphabet) == \E i \in 1..Len(alphabet) : CharAt(alphabet, i) = c

IndexIn(c, alphabet) == CHOOSE i \in 1..Len(alphabet) : CharAt(alphabet, i) = c

(* strings.ToLower / strings.ToUpper on one character *)
LowerChar(c) == IF Among(c, UpperLetters) THEN CharAt(LowerLetters, IndexIn(c, UpperLetters)) ELSE c

UpperChar(c) == IF Among(c, LowerLetters) THEN CharAt(UpperLetters, IndexIn(c, LowerLetters)) ELSE c

RECURSIVE ToLower(_)
ToLower(s) == IF s = "" THEN "" ELSE LowerChar(Head(s)) \o ToLower(Tail(s))

RECURSIVE ToUpper(_)
ToUpper(s) == IF s = "" THEN "" ELSE UpperChar(Head(s)) \o ToUpper(Tail(s))

(* strings.HasPrefix *)
HasPrefix(s, prefix) == Len(s) >= Len(prefix) /\ SubSeq(s, 1, Len(prefix)) = prefix

(* unicode.IsSpace, and the regexp class \s, on the characters modelled *)
IsSpace(c) == c \in {" ", "\t", "\n", "\r", NBSP}

IsRegexpSpace(c) == c \in {" ", "\t", "\n", "\r"}

(* the regexp class \w behind \b: [0-9A-Za-z_] *)
IsWordChar(c) == Among(c, UpperLetters) \/ Among(c, LowerLetters) \/ Among(c, Digits) \/ c = "_"

(* strings.Split(s, sep) for a separator of one character *)
RECURSIVE SplitFrom(_, _, _)
SplitFrom(s, sep, cur) ==
    IF s = "" THEN <<cur>>
    ELSE IF Head(s) = sep THEN <<cur>> \o SplitFrom(Tail(s), sep, "")
    ELSE SplitFrom(Tail(s), sep, cur \o Head(s))

Split(s, sep) == SplitFrom(s, sep, "")

(* strings.Join *)
RECURSIVE Join(_, _)
Join(parts, sep) ==
    IF parts = <<>> THEN ""
    ELSE IF Len(parts) = 1 THEN parts[1]
    ELSE parts[1] \o sep \o Join(Tail(parts), sep)

(* strings.Fields: the maximal runs of non-space characters *)
RECURSIVE FieldsFrom(_, _)
FieldsFrom(s, cur) ==
    IF s = "" THEN (IF cur = "" THEN <<>> ELSE <<cur>>)
    ELSE IF IsSpace(Head(s))
         THEN (IF cur = "" THEN <<>> ELSE <<cur>>) \o FieldsFrom(Tail(s), "")
         ELSE FieldsFrom(Tail(s), cur \o Head(s))

Fields(s) == FieldsFrom(s, "")

(* strings.TrimSpace *)
RECURSIVE TrimLeft(_)
TrimLeft(s) == IF s # "" /\ IsSpace(Head(s)) THEN TrimLeft(Tail(s)) ELSE s

RECURSIVE TrimRight(_)
TrimRight(s) ==
    IF s # "" /\ IsSpace(CharAt(s, Len(s))) THEN TrimRight(SubSeq(s, 1, Len(s) - 1)) ELSE s

TrimSpace(s) == TrimRight(TrimLeft(s))

(***************************************************************************)
(* normalizeText, stage_processing.go lines 299-327.                       *)
(***************************************************************************)
(* line 301, norm.NFKD: the identity on ASCII; NO-BREAK SPACE decomposes to *)
(* a space.                                                                 *)
NFKDChar(c) == IF c = NBSP THEN " " ELSE c

RECURSIVE NFKD(_)
NFKD(s) == IF s = "" THEN "" ELSE NFKDChar(Head(s)) \o NFKD(Tail(s))

(* lines 304-309 *)
SpaceChar(c) == IF IsSpace(c) THEN " " ELSE c

RECURSIVE MapSpaces(_)
MapSpaces(s) == IF s = "" THEN "" ELSE SpaceChar(Head(s)) \o MapSpaces(Tail(s))

(* lines 89-101 *)
contractions ==
    [w \in {"i'm", "i've", "i'll", "i'd", "can't", "won't", "don't", "doesn't", "didn't",
            "isn't", "aren't", "wasn't", "weren't", "hasn't", "haven't", "hadn't",
            "wouldn't", "shouldn't", "couldn't", "you're", "you've", "you'll", "you'd",
            "he's", "she's", "it's", "that's", "what's", "where's", "who's", "there's",
            "we're", "we've", "they're", "they've"} |->
        CASE w = "i'm" -> "i am" [] w = "i've" -> "i have" [] w = "i'll" -> "i will"
          [] w = "i'd" -> "i would" [] w = "can't" -> "cannot" [] w = "won't" -> "will not"
          [] w = "don't" -> "do not" [] w = "doesn't" -> "does not" [] w = "didn't" -> "did not"
          [] w = "isn't" -> "is not" [] w = "aren't" -> "are not" [] w = "wasn't" -> "was not"
          [] w = "weren't" -> "were not" [] w = "hasn't" -> "has not"
          [] w = "haven't" -> "have not" [] w = "hadn't" -> "had not"
          [] w = "wouldn't" -> "would not" [] w = "shouldn't" -> "should not"
          [] w = "couldn't" -> "could not" [] w = "you're" -> "you are"
          [] w = "you've" -> "you have" [] w = "you'll" -> "you will" [] w = "you'd" -> "you would"
          [] w = "he's" -> "he is" [] w = "she's" -> "she is" [] w = "it's" -> "it is"
          [] w = "that's" -> "that is" [] w = "what's" -> "what is" [] w = "where's" -> "where is"
          [] w = "who's" -> "who is" [] w = "there's" -> "there is" [] w = "we're" -> "we are"
          [] w = "we've" -> "we have" [] w = "they're" -> "they are" [] w = "they've" -> "they have"]

(* lines 315-320 *)
Expand(word) == IF word \in DOMAIN contractions THEN contractions[word] ELSE word

(* line 324: regexp \s+ replaced by one space *)
RECURSIVE CollapseSpaces(_)
CollapseSpaces(s) ==
    IF s = "" THEN ""
    ELSE IF IsRegexpSpace(Head(s))
         THEN " " \o CollapseSpaces(TrimLeft(Tail(s)))
         ELSE Head(s) \o CollapseSpaces(Tail(s))

normalizeText(text) ==
    LET spaced == MapSpaces(NFKD(text))
        lowered == ToLower(TrimSpace(spaced))
        words == Fields(lowered)
        expanded == [i \in 1..Len(words) |-> Expand(words[i])]
    IN CollapseSpaces(Join(expanded, " "))

(***************************************************************************)
(* tokenize, stage_processing.go lines 331-356: all n-grams of 1..5 words. *)
(***************************************************************************)
NGrams(words, n) ==
    IF Len(words) < n THEN <<>>
    ELSE [i \in 1..(Len(words) - n + 1) |-> Join(SubSeq(words, i, i + n - 1), " ")]

tokenize(text) ==
    LET words == Fields(text)
    IN words \o NGrams(words, 2) \o NGrams(words, 3) \o NGrams(words, 4) \o NGrams(words, 5)

(***************************************************************************)
(* entry.regex.MatchString, the pattern of line 281: \b QuoteMeta(raw) \b. *)
(***************************************************************************)
WordAt(s, i) == i >= 1 /\ i <= Len(s) /\ IsWordChar(CharAt(s, i))

(* \b before position i: exactly one of the characters i-1 and i is a word  *)
(* character.                                                               *)
Boundary(s, i) == WordAt(s, i - 1) # WordAt(s, i)

MatchString(raw, s) ==
    \E i \in 1..(Len(s) - Len(raw) + 1) :
        /\ SubSeq(s, i, i + Len(raw) - 1) = raw
        /\ Boundary(s, i)
        /\ Boundary(s, i + Len(raw))

(***************************************************************************)
(* parseCategoryName and generateReturnValue, stage_processing.go lines    *)
(* 160-243.                                                                *)
(***************************************************************************)
RECURSIVE DigitRun(_)
DigitRun(s) == IF s # "" /\ Among(Head(s), Digits) THEN Head(s) \o DigitRun(Tail(s)) ELSE ""

RECURSIVE Atoi(_)
Atoi(ds) == IF ds = "" THEN 0 ELSE 10 * Atoi(SubSeq(ds, 1, Len(ds) - 1)) + (IndexIn(CharAt(ds, Len(ds)), Digits) - 1)

(* fmt.Sscanf(priorityPart, "p%d", &priority): the literal p, then blanks   *)
(* skipped, an optional sign, the longest run of decimal digits; input left *)
(* over after the digits is not an error. Runs of at most 9 digits are      *)
(* modelled, which all fit an int.                                          *)
Sscanf(priorityPart) ==
    IF ~HasPrefix(priorityPart, "p") THEN [err |-> TRUE, priority |-> 0]
    ELSE LET rest == TrimLeft(Tail(priorityPart))
             signed == rest # "" /\ Head(rest) \in {"+", "-"}
             tok == DigitRun(IF signed THEN Tail(rest) ELSE rest)
         IN IF tok = "" THEN [err |-> TRUE, priority |-> 0]
            ELSE [err |-> FALSE,
                  priority |-> IF signed /\ Head(rest) = "-" THEN 0 - Atoi(tok) ELSE Atoi(tok)]

generateReturnValue(baseName, stage) ==
    CASE baseName \in {"donotcall", "do_not_call"} -> "DO_NOT_CALL"
      [] baseName = "honeypot" -> "HONEYPOT"
      [] baseName \in {"answermachine", "answer_machine"} -> "ANSWER_MACHINE"
      [] baseName = "interested" -> "INTERESTED"
      [] baseName \in {"notinterested", "not_interested"} -> "NOT_INTERESTED"
      [] baseName = "dnq" -> "DNQ"
      [] baseName = "busy" -> "BUSY"
      [] baseName = "already" -> "ALREADY"
      [] baseName = "rebuttal" -> "REBUTTAL"
      [] baseName = "neutral" -> "NEUTRAL"
      [] baseName \in {"repeatpitch", "repeat_pitch"} -> "REPEAT_PITCH"
      [] baseName \in {"greetingresponse", "greeting_response"} -> "GREETING_RESPONSE"
      [] baseName \in {"notfeelinggood", "not_feeling_good"} -> "NOT_FEELING_GOOD"
      [] baseName \in {"donttransfer", "dont_transfer"} -> "DONT_TRANSFER"
      [] OTHER -> ToUpper(baseName)

(* the nil *CategoryInfo *)
NoInfo == [BaseName |-> "", Priority |-> 0, Stage |-> "", IsHardcoded |-> FALSE,
           ReturnValue |-> "", ok |-> FALSE]

parseCategoryName(name) ==
    LET parts == Split(name, "_")
        stage == parts[Len(parts)]
        priorityPart == parts[Len(parts) - 1]
        scanned == Sscanf(priorityPart)
        baseName == Join(SubSeq(parts, 1, Len(parts) - 2), "_")
        made(priority, hardcoded) ==
            [BaseName |-> baseName, Priority |-> priority, Stage |-> stage,
             IsHardcoded |-> hardcoded, ReturnValue |-> generateReturnValue(baseName, stage),
             ok |-> TRUE]
    IN IF Len(parts) < 3 THEN NoInfo
       ELSE IF ~HasPrefix(stage, "s") THEN NoInfo
       ELSE IF priorityPart = "hardcoded" THEN made(0, TRUE)
       ELSE IF HasPrefix(priorityPart, "p")
            THEN (IF scanned.err THEN NoInfo ELSE made(scanned.priority, FALSE))
       ELSE NoInfo

(***************************************************************************)
(* A decoded JSON value: its shape and, for an array or an object, its     *)
(* elements; an element is a string or something else.                     *)
(***************************************************************************)
Str(s) == [isString |-> TRUE, str |-> s]

NotStr == [isString |-> FALSE, str |-> ""]

Array(items) == [shape |-> "array", items |-> items]

Object(items) == [shape |-> "object", items |-> items]

String(s) == [shape |-> "string", items |-> <<Str(s)>>]

Number == [shape |-> "number", items |-> <<>>]

RECURSIVE Strings(_)
Strings(items) ==
    IF items = <<>> THEN <<>>
    ELSE (IF Head(items).isString THEN <<Head(items).str>> ELSE <<>>) \o Strings(Tail(items))

Reverse(seq) == [i \in 1..Len(seq) |-> seq[Len(seq) + 1 - i]]

(* convertToStringSlice, lines 246-271. Go ranges over the values of an    *)
(* object in an order of its choosing: flip picks between the two orders of *)
(* an object of at most two values.                                        *)
convertToStringSlice(value, flip) ==
    CASE value.shape = "array" -> Strings(value.items)
      [] value.shape = "object" -> Strings(IF flip THEN Reverse(value.items) ELSE value.items)
      [] value.shape = "string" -> <<value.items[1].str>>
      [] OTHER -> <<>>

(* prepareKeywordEntries, lines 274-292: the regex of an entry is          *)
(* determined by raw, see MatchString.                                     *)
RECURSIVE prepareKeywordEntries(_)
prepareKeywordEntries(keywords) ==
    IF keywords = <<>> THEN <<>>
    ELSE LET normalized == normalizeText(Head(keywords))
         IN (IF normalized # "" THEN <<[raw |-> normalized]>> ELSE <<>>)
                \o prepareKeywordEntries(Tail(keywords))

SortKept(prioritized) == prioritized

(* sort.Slice by Priority, lines 144-146; for fewer than 12 elements it is *)
(* an insertion sort, which keeps equal priorities in insertion order.     *)
RECURSIVE SortByPriority(_)
SortByPriority(prioritized) ==
    IF prioritized = <<>> THEN <<>>
    ELSE LET n == Len(prioritized)
             sorted == SortByPriority(SubSeq(prioritized, 1, n - 1))
             last == prioritized[n]
             at == Cardinality({i \in 1..(n - 1) : sorted[i].Info.Priority <= last.Info.Priority})
         IN SubSeq(sorted, 1, at) \o <<last>> \o SubSeq(sorted, at + 1, n - 1)

NoStage == [Hardcoded |-> <<>>, Prioritized |-> <<>>]

(* lines 121-139: the category is appended to its stage, which is created  *)
(* when the stage map does not have it                                     *)
WithCategory(stageMap, categoryEntry, stageData) ==
    [st \in DOMAIN stageMap \cup {categoryEntry.Info.Stage} |->
        IF st # categoryEntry.Info.Stage THEN stageMap[st]
        ELSE IF categoryEntry.Info.IsHardcoded
             THEN [stageData EXCEPT !.Hardcoded = Append(@, categoryEntry)]
             ELSE [stageData EXCEPT !.Prioritized = Append(@, categoryEntry)]]

(* lines 112-139, for a key that parsed to catInfo *)
AddCategory(stageMap, catInfo, keywords) ==
    IF Len(keywords) = 0 THEN stageMap
    ELSE WithCategory(stageMap,
                      [Info |-> catInfo, Keywords |-> prepareKeywordEntries(keywords)],
                      IF catInfo.Stage \in DOMAIN stageMap THEN stageMap[catInfo.Stage]
                      ELSE NoStage)

(* lines 106-116 *)
AddParsed(stageMap, catInfo, value, flip) ==
    IF ~catInfo.ok THEN stageMap
    ELSE AddCategory(stageMap, catInfo, convertToStringSlice(value, flip))

(* lines 105-140: the loop over the keys of rawKeywords in the order `order` *)
RECURSIVE AddCategories(_, _, _, _)
AddCategories(stageMap, rawKeywords, order, flip) ==
    IF order = <<>> THEN stageMap
    ELSE AddCategories(AddParsed(stageMap, parseCategoryName(Head(order)),
                                 rawKeywords[Head(order)], flip),
                       rawKeywords, Tail(order), flip)

EmptyStageMap == [st \in {} |-> NoStage]

(* lines 142-149 *)
SortStages(stageMap) ==
    [st \in DOMAIN stageMap |-> [stageMap[st] EXCEPT !.Prioritized = SortByPriority(@)]]

(* NewKeywordMatcher, lines 84-152 *)
NewKeywordMatcher(rawKeywords, order, flip) ==
    [stageMap |-> SortStages(AddCategories(EmptyStageMap, rawKeywords, order, flip))]

(***************************************************************************)
(* findBestMatch, stage_processing.go lines 361-418.                       *)
(***************************************************************************)
(* the nil *matchResult *)
NoMatch == [keyword |-> "", matchType |-> "none", length |-> 0, category |-> "",
            returnValue |-> ""]

Result(keyword, matchType, catEntry) ==
    [keyword |-> keyword, matchType |-> matchType, length |-> Len(keyword),
     category |-> catEntry.Info.BaseName, returnValue |-> catEntry.Info.ReturnValue]

RECURSIVE Flatten(_)
Flatten(seqs) == IF seqs = <<>> THEN <<>> ELSE Head(seqs) \o Flatten(Tail(seqs))

(* lines 365-377: the keywords equal to the whole text, in loop order *)
ExactCandidates(normalized, categories) ==
    Flatten([c \in 1..Len(categories) |->
        LET Equal(entry) == entry.raw = normalized
            hits == SelectSeq(categories[c].Keywords, Equal)
        IN [k \in 1..Len(hits) |-> Result(normalized, "exact", categories[c])]])

(* lines 385-399: entry by entry, token by token *)
PhraseCandidates(normalized, catEntry) ==
    LET tokens == tokenize(normalized)
    IN Flatten([k \in 1..Len(catEntry.Keywords) |->
           LET Equal(token) == catEntry.Keywords[k].raw = token
               hits == SelectSeq(tokens, Equal)
           IN [t \in 1..Len(hits) |-> Result(hits[t], "phrase", catEntry)]])

(* lines 402-414 *)
SubstringCandidates(normalized, catEntry) ==
    LET Found(entry) == MatchString(entry.raw, normalized)
        hits == SelectSeq(catEntry.Keywords, Found)
    IN [k \in 1..Len(hits) |-> Result(hits[k].raw, "substring", catEntry)]

LongerOrEqual(candidate, bestMatch) == bestMatch = NoMatch \/ candidate.length >= bestMatch.length

(* lines 388 and 404: when a candidate replaces bestMatch *)
Longer(candidate, bestMatch) == bestMatch = NoMatch \/ candidate.length > bestMatch.length

RECURSIVE Best(_, _)
Best(candidates, bestMatch) ==
    IF candidates = <<>> THEN bestMatch
    ELSE Best(Tail(candidates),
              IF Longer(Head(candidates), bestMatch) THEN Head(candidates) ELSE bestMatch)

findBestMatch(text, categories) ==
    LET normalized == normalizeText(text)
        exact == ExactCandidates(normalized, categories)
        partial == Flatten([c \in 1..Len(categories) |->
                       PhraseCandidates(normalized, categories[c])
                           \o SubstringCandidates(normalized, categories[c])])
    IN IF exact # <<>> THEN exact[1] ELSE Best(partial, NoMatch)

(***************************************************************************)
(* ProcessStage. A tier returns the match it found and the findBestMatch   *)
(* calls it made: the categories passed and the result of each call.       *)
(***************************************************************************)
Call(tier, categories, result) == [tier |-> tier, categories |-> categories, result |-> result]

HardcodedSkipped(stageData, text) == [result |-> NoMatch, calls |-> <<>>]

Found(result, calls) == [result |-> result, calls |-> calls]

(* a findBestMatch call of a tier and what it returned *)
Checked(tier, categories, result, calls) ==
    Found(result, Append(calls, Call(tier, categories, result)))

(* part_001 lines 26-32, stage_processing.go lines 21-27 *)
HardcodedTier(stageData, text) ==
    IF Len(stageData.Hardcoded) > 0
    THEN Checked("hardcoded", stageData.Hardcoded, findBestMatch(text, stageData.Hardcoded), <<>>)
    ELSE Found(NoMatch, <<>>)

RECURSIVE PriorityLoop(_, _, _, _, _, _)

(* part_001 lines 59-64, stage_processing.go lines 54-59: the check at the *)
(* last index, then the next iteration                                     *)
RECURSIVE AtEnd(_, _, _, _, _)
AtEnd(text, prioritized, i, categories, calls) ==
    IF i = Len(prioritized) /\ Len(categories) > 0
    THEN Checked("prioritized", categories, findBestMatch(text, categories), calls)
    ELSE PriorityLoop(text, prioritized, i + 1, prioritized[i].Info.Priority, categories, calls)

(* part_001 lines 43-52, stage_processing.go lines 38-47: the previous     *)
(* group is checked; without a match the new group starts                  *)
RECURSIVE NewLevel(_, _, _, _)
NewLevel(text, prioritized, i, previous) ==
    IF previous.result # NoMatch THEN previous
    ELSE AtEnd(text, prioritized, i, <<prioritized[i]>>, previous.calls)

(* part_001 lines 39-65, stage_processing.go lines 34-60: the loop from     *)
(* index i on, with the loop's locals                                       *)
PriorityLoop(text, prioritized, i, currentPriority, currentPriorityCategories, calls) ==
    IF i > Len(prioritized) THEN Found(NoMatch, calls)
    ELSE IF prioritized[i].Info.Priority = currentPriority
         THEN AtEnd(text, prioritized, i, Append(currentPriorityCategories, prioritized[i]), calls)
    ELSE IF Len(currentPriorityCategories) > 0
         THEN NewLevel(text, prioritized, i,
                       Checked("prioritized", currentPriorityCategories,
                               findBestMatch(text, currentPriorityCategories), calls))
    ELSE AtEnd(text, prioritized, i, <<prioritized[i]>>, calls)

(* part_001 lines 36-37, stage_processing.go lines 31-32 *)
PrioritizedTier(stageData, text) == PriorityLoop(text, stageData.Prioritized, 1, -1, <<>>, <<>>)

FallbackTextAnyPrefix(normalized) == HasPrefix(normalized, "no")

(* part_001 line 70 *)
FallbackText(normalized) == normalized = "no" \/ HasPrefix(normalized, "no ")

(* part_001 lines 69-78: the label of the first prioritized category named *)
(* dnq, or "" when the special case does not apply                         *)
LegacyFallback(stageData, stage, normalized) ==
    LET IsDnq(catEntry) == catEntry.Info.BaseName = "dnq"
        dnq == SelectSeq(stageData.Prioritized, IsDnq)
    IN IF (stage = "s3" \/ stage = "s4") /\ FallbackText(normalized) /\ dnq # <<>>
       THEN dnq[1].Info.ReturnValue
       ELSE ""

Returned(result, calls) == [result |-> result, calls |-> calls, done |-> TRUE]

(* part_001 lines 67-81: nothing matched *)
Unmatched(stageData, stage, calls, legacy) ==
    IF legacy # "" THEN Returned(legacy, calls) ELSE Returned("UNKNOWN_" \o stage, calls)

(* part_001 lines 34-81, after the prioritized tier *)
AfterPrioritized(stageData, text, stage, calls, prio) ==
    IF prio.result # NoMatch THEN Returned(prio.result.returnValue, calls \o prio.calls)
    ELSE Unmatched(stageData, stage, calls \o prio.calls,
                   LegacyFallback(stageData, stage, normalizeText(text)))

(* part_001 lines 26-81, after the hardcoded tier *)
AfterHardcoded(stageData, text, stage, hard) ==
    IF hard.result # NoMatch THEN Returned(hard.result.returnValue, hard.calls)
    ELSE AfterPrioritized(stageData, text, stage, hard.calls, PrioritizedTier(stageData, text))

(* src/unnamed/part_001 lines 17-82 *)
ProcessStage(matcher, text, stage) ==
    IF stage \notin DOMAIN matcher.stageMap THEN Returned("UNKNOWN_" \o stage, <<>>)
    ELSE AfterHardcoded(matcher.stageMap[stage], text, stage,
                        HardcodedTier(matcher.stageMap[stage], text))

(* stage_processing.go lines 29-63, after the prioritized tier *)
AfterPrioritizedUnknown(calls, prio) ==
    IF prio.result # NoMatch THEN Returned(prio.result.returnValue, calls \o prio.calls)
    ELSE Returned("unknown", calls \o prio.calls)

(* stage_processing.go lines 21-63, after the hardcoded tier *)
AfterHardcodedUnknown(stageData, text, hard) ==
    IF hard.result # NoMatch THEN Returned(hard.result.returnValue, hard.calls)
    ELSE AfterPrioritizedUnknown(hard.calls, PrioritizedTier(stageData, text))

(* src/stage_processing.go lines 14-64 *)
ProcessStageUnknown(matcher, text, stage) ==
    IF stage \notin DOMAIN matcher.stageMap THEN Returned("unknown", <<>>)
    ELSE AfterHardcodedUnknown(matcher.stageMap[stage], text,
                               HardcodedTier(matcher.stageMap[stage], text))

(***************************************************************************)
(* The matcher as a state machine: a configuration file is decoded, the    *)
(* matcher is built from it once, and handleMatch classifies requests.     *)
(***************************************************************************)
MaxCats == 3

MaxWords == 2

(* the categories a configuration file is made of *)
Pool ==
    [key \in {"honeypot_hardcoded_s3", "busy_hardcoded_s3", "interested_p1_s3",
              "donotcall_p1_s3", "dnq_p2_s3", "x_p-1_s3", "dnq_p0_s1", "foo_bar_baz"} |->
        CASE key = "honeypot_hardcoded_s3" -> Array(<<Str("o")>>)
          [] key = "busy_hardcoded_s3" -> String("No")
          [] key = "interested_p1_s3" -> Array(<<Str("n"), Str("n o")>>)
          [] key = "donotcall_p1_s3" -> Array(<<Str("Don't"), NotStr, Str("o n")>>)
          [] key = "dnq_p2_s3" -> Array(<<Str("o n"), Str("n")>>)
          [] key = "x_p-1_s3" -> Array(<<Str("n-"), Str("on")>>)
          [] key = "dnq_p0_s1" -> Object(<<Str("on"), Str("n")>>)
          [] key = "foo_bar_baz" -> Array(<<Str("no")>>)]

Configs ==
    {[key \in keys |-> Pool[key]] : keys \in {K \in SUBSET DOMAIN Pool : Cardinality(K) <= MaxCats}}

Words == {"no", "n", "o"}

SpecialTexts == {" ", "NO  o", "don't", "n-o", "n- o", "no on", "non", "n~o", "n o-n", "n o n"}

(* speech_text of a request: up to MaxWords words, or a special text *)
Texts ==
    SpecialTexts \cup
        UNION {{Join(ws, " ") : ws \in [1..n -> Words]} : n \in 1..MaxWords}

Stages == {"s1", "s3"}

Linked == {"part_001", "stage_processing.go"}

(* the orders in which Go may range over the keys of a map *)
Orders(keys) ==
    {order \in [1..Cardinality(keys) -> keys] :
        \A i, j \in 1..Cardinality(keys) : i # j => order[i] # order[j]}

MatcherInit ==
    /\ config \in Configs
    /\ linked \in Linked
    /\ km = NoKM
    /\ req = NoReq
    /\ out = NoOut

(* getMatcher, cache.go lines 155-161: the decoded file is built into the  *)
(* matcher of the campaign                                                 *)
Build ==
    /\ km = NoKM
    /\ \E order \in Orders(DOMAIN config), flip \in BOOLEAN :
           km' = NewKeywordMatcher(config, order, flip)
    /\ UNCHANGED <<config, linked, req, out>>
    /\ UNCHANGED cacheVars

(* handleMatch, part_000 lines 79-99: a request that passes validation *)
Bind(text, stage) ==
    /\ km # NoKM /\ req = NoReq
    /\ text # "" /\ HasPrefix(stage, "s")
    /\ req' = [text |-> text, stage |-> stage]
    /\ out' = NoOut
    /\ UNCHANGED <<config, linked, km>>
    /\ UNCHANGED cacheVars

(* handleMatch, part_000 line 109 *)
Process ==
    /\ req # NoReq /\ ~out.done
    /\ out' = IF linked = "part_001" THEN ProcessStage(km, req.text, req.stage)
              ELSE ProcessStageUnknown(km, req.text, req.stage)
    /\ UNCHANGED <<config, linked, km, req>>
    /\ UNCHANGED cacheVars

(* handleMatch, part_000 lines 111-116: the result is sent and the handler *)
(* returns                                                                 *)
Reply ==
    /\ out.done
    /\ req' = NoReq
    /\ out' = NoOut
    /\ UNCHANGED <<config, linked, km>>
    /\ UNCHANGED cacheVars

MatcherNext ==
    \/ Build
    \/ \E text \in Texts, stage \in Stages : Bind(text, stage)
    \/ Process
    \/ Reply

(* the cache is left in its state after construction *)
MatchInit == CacheInit /\ files["c2"] = Missing /\ MatcherInit

MatchSpec == MatchInit /\ [][MatcherNext]_vars

(***************************************************************************)
(* Properties of the matcher, stated on the request that was processed.    *)
(***************************************************************************)
(* a keyword matches a normalized text: exactly, as a phrase or as a       *)
(* whole-word substring                                                    *)
PartialMatch(raw, normalized) ==
    \/ \E t \in 1..Len(tokenize(normalized)) : tokenize(normalized)[t] = raw
    \/ MatchString(raw, normalized)

Matches(raw, normalized) == raw = normalized \/ PartialMatch(raw, normalized)

CategoryMatches(catEntry, normalized) ==
    \E k \in 1..Len(catEntry.Keywords) : Matches(catEntry.Keywords[k].raw, normalized)

SomeMatches(categories, normalized) ==
    \E c \in 1..Len(categories) : CategoryMatches(categories[c], normalized)

(* the request's normalized text and, when the stage is configured, the    *)
(* categories of its stage                                                 *)
ReqText == normalizeText(req.text)

StagePresent == req.stage \in DOMAIN km.stageMap

ReqHardcoded == km.stageMap[req.stage].Hardcoded

ReqPrioritized == km.stageMap[req.stage].Prioritized

Sentinel == IF linked = "part_001" THEN "UNKNOWN_" \o req.stage ELSE "unknown"

(* C1: if a hardcoded category of the stage matches the text, ProcessStage *)
(* returns the label of a matching hardcoded category, whatever the        *)
(* prioritized categories match.                                           *)
HardcodedPrecedence ==
    (out.done /\ StagePresent /\ SomeMatches(ReqHardcoded, ReqText)) =>
        \E c \in 1..Len(ReqHardcoded) :
            /\ CategoryMatches(ReqHardcoded[c], ReqText)
            /\ out.result = ReqHardcoded[c].Info.ReturnValue

(* a hardcoded category matches by a keyword shorter than the text while a *)
(* prioritized category holds the whole text as a keyword, and the         *)
(* hardcoded label is returned                                             *)
HardcodedPrecedenceWitness ==
    /\ out.done /\ StagePresent
    /\ SomeMatches(ReqHardcoded, ReqText)
    /\ \A c \in 1..Len(ReqHardcoded) : \A k \in 1..Len(ReqHardcoded[c].Keywords) :
           ReqHardcoded[c].Keywords[k].raw # ReqText
    /\ \E c \in 1..Len(ReqPrioritized) :
           /\ \E k \in 1..Len(ReqPrioritized[c].Keywords) :
                  ReqPrioritized[c].Keywords[k].raw = ReqText
           /\ out.result # ReqPrioritized[c].Info.ReturnValue
    /\ \E c \in 1..Len(ReqHardcoded) : out.result = ReqHardcoded[c].Info.ReturnValue

(* the prioritized categories of the stage that have priority p, the ones  *)
(* among them that match, and the priority groups ProcessStage has to look *)
(* at: those with no matching group of smaller priority                    *)
Group(p) == {ReqPrioritized[c] : c \in {d \in 1..Len(ReqPrioritized) : ReqPrioritized[d].Info.Priority = p}}

Priorities == {ReqPrioritized[c].Info.Priority : c \in 1..Len(ReqPrioritized)}

GroupMatches(p) == \E catEntry \in Group(p) : CategoryMatches(catEntry, ReqText)

Consulted == {p \in Priorities : \A q \in Priorities : q < p => ~GroupMatches(q)}

PrioritizedCalls ==
    LET IsPrioritized(call) == call.tier = "prioritized" IN SelectSeq(out.calls, IsPrioritized)

CallPriority(call) == call.categories[1].Info.Priority

(* C2: when no hardcoded category matches, the label returned for a text   *)
(* that a prioritized category matches belongs to a matching category of   *)
(* the smallest matching priority; every priority group is passed to       *)
(* findBestMatch whole and at most once, in ascending order, and a group   *)
(* is passed exactly when no group of smaller priority matches.            *)
PriorityPrecedence ==
    (out.done /\ StagePresent /\ ~SomeMatches(ReqHardcoded, ReqText)) =>
        /\ \A p \in Priorities :
               (GroupMatches(p) /\ \A q \in Priorities : q < p => ~GroupMatches(q)) =>
                   \E catEntry \in Group(p) :
                       /\ CategoryMatches(catEntry, ReqText)
                       /\ out.result = catEntry.Info.ReturnValue
        /\ \A i \in 1..Len(PrioritizedCalls) :
               /\ {PrioritizedCalls[i].categories[c] : c \in 1..Len(PrioritizedCalls[i].categories)}
                      = Group(CallPriority(PrioritizedCalls[i]))
               /\ Len(PrioritizedCalls[i].categories)
                      = Cardinality(Group(CallPriority(PrioritizedCalls[i])))
               /\ CallPriority(PrioritizedCalls[i]) \in Consulted
               /\ \A j \in 1..Len(PrioritizedCalls) :
                      i < j => CallPriority(PrioritizedCalls[i]) < CallPriority(PrioritizedCalls[j])
        /\ \A p \in Consulted :
               \E i \in 1..Len(PrioritizedCalls) : CallPriority(PrioritizedCalls[i]) = p

(* no hardcoded match; the group of priority -1 is looked at first and     *)
(* does not match, a later group matches and is returned, and a group of   *)
(* still larger priority that matches as well is never looked at           *)
PriorityPrecedenceWitness ==
    /\ out.done /\ StagePresent /\ ~SomeMatches(ReqHardcoded, ReqText)
    /\ Len(PrioritizedCalls) = 2
    /\ CallPriority(PrioritizedCalls[1]) = -1
    /\ PrioritizedCalls[2].result # NoMatch
    /\ \E p \in Priorities :
           /\ p > CallPriority(PrioritizedCalls[2])
           /\ GroupMatches(p)
           /\ \A catEntry \in Group(p) : out.result # catEntry.Info.ReturnValue

(* what one findBestMatch call over `categories` has to choose from: the   *)
(* categories holding the whole text as a keyword, the lengths of the      *)
(* keywords that match as a phrase or a substring, and the categories and  *)
(* keywords that reach the greatest such length                            *)
Min(S) == CHOOSE m \in S : \A x \in S : m <= x

Max(S) == CHOOSE m \in S : \A x \in S : x <= m

IsToken(raw, tokens) == \E t \in 1..Len(tokens) : tokens[t] = raw

IsPartial(raw, text, tokens) == IsToken(raw, tokens) \/ MatchString(raw, text)

ExactAt(categories, text) ==
    {c \in 1..Len(categories) :
        \E k \in 1..Len(categories[c].Keywords) : categories[c].Keywords[k].raw = text}

PartialLengths(categories, text, tokens) ==
    UNION {{Len(categories[c].Keywords[k].raw) :
               k \in {j \in 1..Len(categories[c].Keywords) :
                         IsPartial(categories[c].Keywords[j].raw, text, tokens)}} :
           c \in 1..Len(categories)}

PhraseTop(catEntry, longest, tokens) ==
    {k \in 1..Len(catEntry.Keywords) :
        Len(catEntry.Keywords[k].raw) = longest /\ IsToken(catEntry.Keywords[k].raw, tokens)}

SubstringTop(catEntry, longest, text) ==
    {k \in 1..Len(catEntry.Keywords) :
        Len(catEntry.Keywords[k].raw) = longest /\ MatchString(catEntry.Keywords[k].raw, text)}

Top(categories, longest, text, tokens) ==
    {c \in 1..Len(categories) :
        PhraseTop(categories[c], longest, tokens) \cup SubstringTop(categories[c], longest, text) # {}}

Chosen(catEntry, longest, text, tokens) ==
    IF PhraseTop(catEntry, longest, tokens) # {}
    THEN [keyword |-> catEntry.Keywords[Min(PhraseTop(catEntry, longest, tokens))].raw,
          matchType |-> "phrase", length |-> longest,
          category |-> catEntry.Info.BaseName, returnValue |-> catEntry.Info.ReturnValue]
    ELSE [keyword |-> catEntry.Keywords[Min(SubstringTop(catEntry, longest, text))].raw,
          matchType |-> "substring", length |-> longest,
          category |-> catEntry.Info.BaseName, returnValue |-> catEntry.Info.ReturnValue]

Expected(categories, text, tokens) ==
    LET exact == ExactAt(categories, text)
        lengths == PartialLengths(categories, text, tokens)
        longest == Max(lengths)
    IN IF exact # {}
       THEN [keyword |-> text, matchType |-> "exact", length |-> Len(text),
             category |-> categories[Min(exact)].Info.BaseName,
             returnValue |-> categories[Min(exact)].Info.ReturnValue]
       ELSE IF lengths = {} THEN NoMatch
       ELSE Chosen(categories[Min(Top(categories, longest, text, tokens))], longest, text, tokens)

(* C3: every findBestMatch call returns the keyword equal to the whole     *)
(* text if there is one; otherwise, of the keywords of its categories that *)
(* match as a phrase or as a whole-word substring, one of the greatest     *)
(* length, and among those the first in evaluation order (category by      *)
(* category, phrases before substrings); it returns nothing only if no     *)
(* keyword matches.                                                        *)
LongestMatch ==
    out.done =>
        LET text == ReqText
            tokens == tokenize(text)
        IN \A i \in 1..Len(out.calls) :
               out.calls[i].result = Expected(out.calls[i].categories, text, tokens)

(* a call without an exact match in which keywords of two categories tie   *)
(* for the greatest length and a shorter keyword matches too               *)
LongestMatchWitness ==
    /\ out.done
    /\ LET text == ReqText
           tokens == tokenize(text)
       IN \E i \in 1..Len(out.calls) :
              LET categories == out.calls[i].categories
                  lengths == PartialLengths(categories, text, tokens)
              IN /\ ExactAt(categories, text) = {}
                 /\ Cardinality(lengths) >= 2
                 /\ Cardinality(Top(categories, Max(lengths), text, tokens)) >= 2
                 /\ out.calls[i].result.category
                        = categories[Min(Top(categories, Max(lengths), text, tokens))].Info.BaseName

NothingMatches ==
    \/ ~StagePresent
    \/ ~SomeMatches(ReqHardcoded, ReqText) /\ ~SomeMatches(ReqPrioritized, ReqText)

(* C4 as claimed: when the stage is not configured or no keyword of the    *)
(* stage matches, the no-match sentinel is returned.                       *)
UnknownFallback == (out.done /\ NothingMatches) => out.result = Sentinel

(* the legacy special case of part_001: stage s3 or s4, the text is "no"   *)
(* or starts with "no ", and the stage has a prioritized category dnq      *)
DnqAt == {c \in 1..Len(ReqPrioritized) : ReqPrioritized[c].Info.BaseName = "dnq"}

LegacyCase ==
    /\ linked = "part_001" /\ StagePresent
    /\ req.stage \in {"s3", "s4"}
    /\ ReqText = "no" \/ (Len(ReqText) >= 3 /\ SubSeq(ReqText, 1, 3) = "no ")
    /\ DnqAt # {}

(* C4, amended: when the stage is not configured or no keyword of the      *)
(* stage matches, the sentinel is returned, except in the legacy special   *)
(* case, where the label of the first dnq category is returned.            *)
UnknownFallbackUnlessLegacy ==
    (out.done /\ NothingMatches) =>
        out.result = IF LegacyCase THEN ReqPrioritized[Min(DnqAt)].Info.ReturnValue ELSE Sentinel

(* no keyword of the stage matches and the request is answered DNQ *)
UnknownFallbackWitness ==
    /\ out.done /\ StagePresent /\ NothingMatches
    /\ out.result = "DNQ"

(***************************************************************************)
(* Configurations of one category whose key is put together from leading   *)
(* segments, a priority token and a stage token.                           *)
(***************************************************************************)
KeyLeading == {<<>>, <<"">>, <<"dnq">>, <<"do", "not", "call">>}

KeyPriorityParts ==
    {"hardcoded", "hardcodedx", "p0", "p1", "p12", "p", "p1x", "p-1", "p+2", "px", "q1"}

KeyStageParts == {"s3", "s", "t1", "3s", ""}

Keys ==
    {Join(leading \o <<priorityPart, stagePart>>, "_") :
        leading \in KeyLeading, priorityPart \in KeyPriorityParts, stagePart \in KeyStageParts}

KeyConfigs == {[key \in {k} |-> Array(<<Str("n")>>)] : k \in Keys}

KeyInit ==
    /\ CacheInit /\ files["c2"] = Missing
    /\ config \in KeyConfigs
    /\ linked \in Linked
    /\ km = NoKM
    /\ req = NoReq
    /\ out = NoOut

KeySpec == KeyInit /\ [][MatcherNext]_vars

(* the key grammar: at least three segments, a stage that starts with s,   *)
(* and a priority token that is hardcoded or p followed only by digits     *)
AllDigits(s) == s # "" /\ \A i \in 1..Len(s) : Among(CharAt(s, i), Digits)

WellFormed(key) ==
    LET parts == Split(key, "_")
    IN /\ Len(parts) >= 3
       /\ HasPrefix(parts[Len(parts)], "s")
       /\ \/ parts[Len(parts) - 1] = "hardcoded"
          \/ /\ HasPrefix(parts[Len(parts) - 1], "p")
             /\ AllDigits(Tail(parts[Len(parts) - 1]))

Leading(key) == Join(SubSeq(Split(key, "_"), 1, Len(Split(key, "_")) - 2), "_")

(* the CategoryInfo of every category of the matcher *)
Infos ==
    UNION {{km.stageMap[st].Hardcoded[c].Info : c \in 1..Len(km.stageMap[st].Hardcoded)}
               \cup {km.stageMap[st].Prioritized[c].Info :
                        c \in 1..Len(km.stageMap[st].Prioritized)} :
           st \in DOMAIN km.stageMap}

(* C11 as claimed: once the matcher is built, every key outside the key    *)
(* grammar was rejected by parseCategoryName and left no category; every   *)
(* key that was accepted has a priority of at least 0 and its leading      *)
(* segments as base name.                                                  *)
KeyGrammarRejection ==
    km # NoKM =>
        /\ \A key \in DOMAIN config :
               /\ ~WellFormed(key) => ~parseCategoryName(key).ok
               /\ parseCategoryName(key).ok =>
                      /\ parseCategoryName(key).Priority >= 0
                      /\ parseCategoryName(key).BaseName = Leading(key)
        /\ (\A key \in DOMAIN config : ~WellFormed(key)) => Infos = {}
        /\ \A catInfo \in Infos : catInfo.Priority >= 0

(***************************************************************************)
(* Configurations whose values have every shape a decoded JSON value can   *)
(* have, among them the ones that yield no keyword.                        *)
(***************************************************************************)
ShapeKeys == {"dnq_p1_s3", "busy_hardcoded_s1"}

ShapeValues ==
    {Array(<<>>), Array(<<NotStr>>), Array(<<Str(" ")>>), Array(<<Str("n"), NotStr>>),
     Object(<<NotStr, NotStr>>), String(" "), Number}

ShapeConfigs == UNION {[keys -> ShapeValues] : keys \in SUBSET ShapeKeys}

ShapeInit ==
    /\ CacheInit /\ files["c2"] = Missing
    /\ config \in ShapeConfigs
    /\ linked \in Linked
    /\ km = NoKM
    /\ req = NoReq
    /\ out = NoOut

ShapeSpec == ShapeInit /\ [][MatcherNext]_vars

(* the categories of the matcher filed under the stage and tier of catInfo *)
Filed(catInfo) ==
    IF catInfo.Stage \notin DOMAIN km.stageMap THEN {}
    ELSE IF catInfo.IsHardcoded
         THEN {km.stageMap[catInfo.Stage].Hardcoded[c].Info :
                  c \in 1..Len(km.stageMap[catInfo.Stage].Hardcoded)}
         ELSE {km.stageMap[catInfo.Stage].Prioritized[c].Info :
                  c \in 1..Len(km.stageMap[catInfo.Stage].Prioritized)}

(* C12 as claimed: once the matcher is built, every key that parses has a  *)
(* category in the hardcoded or prioritized list of its stage, whatever    *)
(* its value is.                                                           *)
ZeroKeywordCategoriesKept ==
    km # NoKM =>
        \A key \in DOMAIN config :
            parseCategoryName(key).ok => parseCategoryName(key) \in Filed(parseCategoryName(key))

(***************************************************************************)
(* Concurrent lookups of one campaign.                                     *)
(***************************************************************************)
(* The goroutine's last request was a lookup of campaign c that returned a  *)
(* Matcher.                                                                 *)
Served(w, c) == resp[w].status = "200" /\ wobs[w].camp = c

(* C13 as claimed: while the file of a campaign is not changed and no       *)
(* eviction of the campaign is requested, the campaign is built once: all   *)
(* lookups of it, concurrent ones included, return the same Matcher         *)
(* instance, so no lookup's modification check deleted a Matcher another    *)
(* lookup had published.                                                    *)
SingleBuildForConcurrentLookups ==
    \A c \in Campaigns \ invalidated :
        \A w1, w2 \in Workers :
            Served(w1, c) /\ Served(w2, c) => resp[w1].matcher = resp[w2].matcher

(***************************************************************************)
(* The server after it has served the first lookup of c1: getMatcher,      *)
(* cache.go lines 119-166, has recorded the file's modification time and   *)
(* published the Matcher it built. nops counts the operations started from *)
(* here on.                                                                *)
(***************************************************************************)
FirstMatcher == [loadedAt |-> 2, src |-> Present.mtime]

WarmCache ==
    /\ matchers = [c \in Campaigns |-> IF c = "c1" THEN FirstMatcher ELSE NoMatcher]
    /\ fileModTimes = [k \in ModKeys |-> IF k = FilePath("c1") THEN Present.mtime ELSE NoTime]
    /\ writer = None
    /\ files \in {[c \in Campaigns |-> IF c = "c1" THEN Present ELSE f] : f \in {Present, Missing}}
    /\ now = 2
    /\ events = <<>>
    /\ errors = 0
    /\ closed = FALSE
    /\ wpc = [w \in Workers |-> "idle"]
    /\ wcamp = [w \in Workers |-> None]
    /\ wloc = [w \in Workers |-> NoLoc]
    /\ resp = [w \in Workers |-> IF w = "w1" THEN [status |-> "200", matcher |-> FirstMatcher]
                                             ELSE NoResp]
    /\ tpc = "select"
    /\ tev = NoEvent
    /\ info = 0
    /\ evictedAt = [c \in Campaigns |-> IF c = "c1" THEN 1 ELSE NoTime]
    /\ watchedAt = [c \in Campaigns |-> NoTime]
    /\ loggedAt = NoTime
    /\ wobs = [w \in Workers |-> IF w = "w1" THEN [NoObs EXCEPT !.camp = "c1"] ELSE NoObs]
    /\ invalidated = {}

WarmInit == WarmCache /\ nops = 0 /\ MatcherIdle

WarmSpec == WarmInit /\ [][Next]_vars

(* C14 as claimed: once a lookup has recorded a modification time of a      *)
(* campaign's file in fileModTimes, a lookup of that campaign that starts   *)
(* afterwards never returns a Matcher built from an older version of the    *)
(* file.                                                                    *)
NoStaleMatcherAfterRecordedModification ==
    \A w \in Workers :
        resp[w].status = "200" /\ wobs[w].camp # None =>
            resp[w].matcher.src >= wobs[w].recorded

====
